---- MODULE Spec2Model ----
(***************************************************************************)
(* The change-propagation pipeline of dns-reloader (src/dns-reloader/      *)
(* main.go): Reloader.Run, listenForNotifications, pollForChanges,         *)
(* triggerCoreReload, regenerateAllZones and the publishing part of        *)
(* generateZoneFile, together with the record store, the notification      *)
(* channel of the listener, the poll ticker and the zones directory.       *)
(***************************************************************************)
EXTENDS Integers, Sequences, FiniteSets, TLC

\* ------------------------------------------------------------------ bounds
\* mutations of the records the admin layer makes
MaxVer == 1
\* notifications the model lets wait in listener.Notify
MaxQueue == 2
\* hours the model lets pass on the clock
MaxHour == 1
\* rows of the records table the domain has
MaxRecords == 2
\* minutes the model lets pass on the clock of the poll
MaxClock == 2

\* ------------------------------------------------------- program constants
\* for i := 0; i < 10; i++  (Run)
MaxAttempts == 10

\* Domain names of the store.  "a.tmp" is a valid name for the admin layer's
\* isValidDomain and is at the same time "a" followed by ".tmp".
DomainNames == {"a", "a.tmp"}

NoFile == [absent |-> TRUE]

\* filepath.Join(ZonesDirectory, fmt.Sprintf("db.%s", domain.Name))
zonePath(d) == "db." \o d

\* tempPath := zonePath + ".tmp"
tempPath(d) == zonePath(d) \o ".tmp"

Paths == {zonePath(d) : d \in DomainNames} \cup {tempPath(d) : d \in DomainNames}

\* The text generateZoneFile builds for a domain from the records it was
\* given: a function of the domain and of the state of the store the records
\* were read in.
zoneContent(d, v) == [dom |-> d, ver |-> v]

\* A file holding the whole text, and one holding a strict prefix of it.
FullFile(t) == [absent |-> FALSE, text |-> t, full |-> TRUE]
PartFile(t) == [absent |-> FALSE, text |-> t, full |-> FALSE]

Texts == {zoneContent(d, v) : d \in DomainNames, v \in 0..MaxVer}
Files == {NoFile} \cup {FullFile(t) : t \in Texts} \cup {PartFile(t) : t \in Texts}

\* Orders in which Find(&domains) may return the rows S of the domains table
\* (no ORDER BY).
Listings(S) == {s \in [1..Cardinality(S) -> S] :
                  \A i, j \in DOMAIN s : i # j => s[i] # s[j]}

\* The admin layer has created no record yet (prio -1: none).
NoResult == [status |-> "none", type |-> "", content |-> <<>>, prio |-> -1]

\* ------------------------------------------------------ the configuration

\* The strings POLL_INTERVAL is given: an optional sign, digits (num, -1 when
\* there are none) and what follows them.  Empty is "", the value
\* os.Getenv gives for a variable that is not set.
DurationString(neg, num, unit) == [neg |-> neg, num |-> num, unit |-> unit]

Empty == DurationString(FALSE, -1, "")

\* getEnv("POLL_INTERVAL", "5s"): the fallback, and the value docker-compose
\* sets (POLL_INTERVAL=5s).
DefaultInterval == DurationString(FALSE, 5, "s")

ComposeInterval == DurationString(FALSE, 5, "s")

\* Values of POLL_INTERVAL: unset, "abc", "5" (no unit), "0", "5s", "0s",
\* "-5s", "1m".
PollEnvs ==
  { Empty, DurationString(FALSE, -1, "abc"), DurationString(FALSE, 5, ""),
    DurationString(FALSE, 0, ""), DurationString(FALSE, 5, "s"),
    DurationString(FALSE, 0, "s"), DurationString(TRUE, 5, "s"),
    DurationString(FALSE, 1, "m") }

\* getEnv: the value of the variable, the default when it is empty.
getEnv(value, defaultValue) == IF value # Empty THEN value ELSE defaultValue

\* time.ParseDuration, in seconds: a signed number with the unit s or m, or
\* "0" alone; anything else is an error.
ParseDuration(s) ==
  IF s.num >= 0 /\ s.unit \in {"s", "m"}
  THEN [err |-> FALSE,
        d |-> (IF s.neg THEN -1 ELSE 1) * s.num * (IF s.unit = "m" THEN 60 ELSE 1)]
  ELSE IF s.num = 0 /\ s.unit = ""
       THEN [err |-> FALSE, d |-> 0]
       ELSE [err |-> TRUE, d |-> 0]

\* parseDuration: 5 * time.Second when time.ParseDuration fails, the parsed
\* duration otherwise.
parseDuration(s) ==
  IF ParseDuration(s).err THEN 5 ELSE ParseDuration(s).d

VARIABLES
  pc,          \* position of the goroutine that runs Reloader.Run
  attempts,    \* i of the connect loop of Run
  runErr,      \* Run returns an error
  exit,        \* exit status of the process, -1 while it runs
  ctxDone,     \* r.ctx has been cancelled (shutdown signal received)
  db,          \* r.rawDB: "nil", "open", "closed"
  listener,    \* r.listener: "nil", "open", "closed"
  notify,      \* r.listener.Notify, a FIFO channel
  ticker,      \* the ticker of pollForChanges: "none", "running", "stopped"
  tick,        \* ticker.C holds a tick (capacity 1)
  recChanged,  \* pollForChanges: a record row is newer than lastCheck
  domChanged,  \* pollForChanges: a domain row is newer than lastCheck
  count,       \* pollForChanges: count > 0
  domainCount, \* pollForChanges: domainCount > 0
  domErr,      \* pollForChanges: domainResult.Error != nil
  ver,         \* the store: the state of its records, numbered by the mutations
  doms,        \* the store: the names of the rows of the domains table
  clock,       \* time.Now(), in minutes
  lastCheck,   \* pollForChanges: lastCheck, in minutes (-1: a minute before 0)
  pollInterval,\* r.config.PollInterval, in seconds
  adminRes,    \* the admin layer: what its latest createRecord came to
  fs,          \* the zones directory: path -> file
  caller,      \* who called regenerateAllZones
  domains,     \* regenerateAllZones: the listing being iterated
  idx,         \* regenerateAllZones: index of the current domain
  snap,        \* version of the records fetched for the current domain
  \* history variables
  inflight,    \* calls of regenerateAllZones that have not returned
  nInit,       \* calls of regenerateAllZones before the first wait in a select
  reloads,     \* reload invocations (docker exec) since the last resync began
  arrived,     \* a notification arrived during the resync in flight
  waited,      \* an event was taken from a select
  subLost,     \* listener.Ping failed
  setupRes,    \* result of setupListener: "none", "ok", "fail"
  tried,       \* the domains the resync in flight has fetched the records of
  pubDom,      \* the domain of the publish in progress or just over
  pubOld,      \* its target file when that publish started
  pubRes,      \* its state: "none", "run", "ok", "err"
  unread,      \* since the latest change of the records no resync has
               \* read the store and no store query has failed
  reloadErr,   \* triggerCoreReload: the reload command returned an error
  cycleErr,    \* triggerCoreReload returns an error
  \* generateZoneFile as a function of its arguments and of the clock
  recSet,      \* the records of the domain in the store
  records,     \* the slice Find(&records) returned
  now,         \* time.Now(), in hours
  zoneText     \* zoneContent.String() of the latest call

vars == <<pc, attempts, runErr, exit, ctxDone, db, listener, notify, ticker,
          tick, recChanged, domChanged, count, ver, fs, caller, domains, idx,
          snap, inflight, nInit, reloads, arrived, waited,
          subLost, setupRes, tried, pubDom, pubOld, pubRes, domainCount,
          domErr, unread, reloadErr, cycleErr, recSet, records, now,
          zoneText, doms, clock, lastCheck, pollInterval, adminRes>>

\* r.rawDB, r.listener, the ticker and what Run returns
procVars == <<attempts, runErr, exit, db, listener, ticker>>

\* the two channels the loops receive from
chanVars == <<notify, tick>>

\* the locals of the loop of pollForChanges
pollVars == <<count, domainCount, domErr>>

\* what triggerCoreReload got from the reload command and what it returns
retVars == <<reloadErr, cycleErr>>

\* the arguments and the result of generateZoneFile
renderVars == <<recSet, records, now, zoneText>>

\* the domains of the store, the wall clock and the configuration
envVars == <<doms, clock, pollInterval, adminRes>>

\* the record store
storeVars == <<ver, recChanged, domChanged>>

\* the locals of regenerateAllZones
loopVars == <<caller, domains, idx, snap>>

\* the history of the publish in progress
pubVars == <<pubDom, pubOld, pubRes>>

\* the history of the resyncs
syncVars == <<inflight, nInit, reloads, arrived, tried>>

\* the history of the process
runVars == <<waited, subLost, setupRes>>

\* The process after NewReloader, with an empty zones directory.
ProcInit ==
  /\ pc = "connect"
  /\ attempts = 0
  /\ runErr = FALSE
  /\ exit = -1
  /\ ctxDone = FALSE
  /\ db = "nil"
  /\ listener = "nil"
  /\ notify = <<>>
  /\ ticker = "none"
  /\ tick = FALSE
  /\ recChanged = FALSE
  /\ domChanged = FALSE
  /\ count = FALSE
  /\ ver = 0
  /\ fs = [p \in Paths |-> NoFile]
  /\ caller = "none"
  /\ domains = <<>>
  /\ idx = 0
  /\ snap = 0
  /\ inflight = 0
  /\ nInit = 0
  /\ reloads = 0
  /\ arrived = FALSE
  /\ waited = FALSE
  /\ subLost = FALSE
  /\ setupRes = "none"
  /\ tried = {}
  /\ pubDom = "none"
  /\ pubOld = NoFile
  /\ pubRes = "none"
  /\ domainCount = FALSE
  /\ domErr = FALSE
  /\ unread = FALSE
  /\ reloadErr = FALSE
  /\ cycleErr = FALSE
  /\ doms = DomainNames
  /\ clock = 0
  /\ lastCheck = -1
  /\ adminRes = NoResult

Init ==
  /\ ProcInit
  /\ pollInterval = parseDuration(getEnv(ComposeInterval, DefaultInterval))
  /\ recSet = {}
  /\ records = <<>>
  /\ now = 0
  /\ zoneText = <<>>

Running == pc \notin {"exited", "killed", "panic"}

\* ------------------------------------------------------------ environment

\* What a notification is tagged with when it enters listener.Notify: "more"
\* when another one arrived before it during the resync in flight, "n"
\* otherwise.
Tag == IF inflight > 0 /\ arrived THEN "more" ELSE "n"

\* The row triggers of the store call pg_notify('dns_records_changed', ...) for
\* every changed row; the listener delivers it when it is subscribed.  When
\* the connection of the listener is down at that moment the notification is
\* lost, and the listener sends nil on Notify once it has reconnected.
Notified ==
  IF listener = "open"
  THEN /\ Len(notify) < MaxQueue
       /\ \/ /\ notify' = Append(notify, Tag)
             /\ arrived' = (arrived \/ inflight > 0)
          \/ /\ notify' = Append(notify, "nil")
             /\ UNCHANGED arrived
  ELSE UNCHANGED <<notify, arrived>>

\* The admin layer changes records: the store is in its next state.
Mutate ==
  /\ Running
  /\ ver < MaxVer
  /\ ver' = ver + 1
  /\ recChanged' = (recChanged \/ ticker = "running")
  /\ Notified
  /\ unread' = TRUE
  /\ UNCHANGED <<retVars, renderVars, envVars, lastCheck>>
  /\ UNCHANGED <<pc, procVars, ctxDone, tick, domChanged, pollVars, fs, loopVars,
                 inflight, nInit, reloads, tried, pubVars, runVars>>

\* The admin layer updates a row without changing what is rendered (a
\* comment, a domain's account): table is "records" or "domains".
Touch(table) ==
  /\ Running
  /\ recChanged' = (recChanged \/ (table = "records" /\ ticker = "running"))
  /\ domChanged' = (domChanged \/ (table = "domains" /\ ticker = "running"))
  /\ Notified
  /\ UNCHANGED <<retVars, unread, renderVars, envVars, lastCheck>>
  /\ UNCHANGED <<pc, procVars, ctxDone, tick, ver, pollVars, fs, loopVars,
                 inflight, nInit, reloads, tried, pubVars, runVars>>

\* The listener re-established its connection: it sends nil on Notify.
Reconnect ==
  /\ Running
  /\ listener = "open"
  /\ Len(notify) < MaxQueue
  /\ notify' = Append(notify, "nil")
  /\ UNCHANGED <<retVars, unread, renderVars, envVars, lastCheck>>
  /\ UNCHANGED <<pc, procVars, ctxDone, tick, storeVars, pollVars, fs, loopVars,
                 syncVars, pubVars, runVars>>

\* The ticker sends on ticker.C, a channel of capacity 1: a tick that finds
\* one waiting is dropped.
TickFire ==
  /\ Running
  /\ ticker = "running"
  /\ ~tick
  /\ tick' = TRUE
  /\ UNCHANGED <<retVars, unread, renderVars, envVars, lastCheck>>
  /\ UNCHANGED <<pc, procVars, ctxDone, notify, storeVars, pollVars, fs, loopVars,
                 syncVars, pubVars, runVars>>

\* SIGINT/SIGTERM: the goroutine of Run calls r.cancel().
Signal ==
  /\ Running
  /\ ~ctxDone
  /\ ctxDone' = TRUE
  /\ UNCHANGED <<retVars, unread, renderVars, envVars, lastCheck>>
  /\ UNCHANGED <<pc, procVars, chanVars, storeVars, pollVars, fs, loopVars,
                 syncVars, pubVars, runVars>>

\* The process is killed (SIGKILL, power loss) wherever it is: what it held
\* in memory is gone, the store and the zones directory stay as they are.
Kill ==
  /\ Running
  /\ pc' = "killed"
  /\ attempts' = 0
  /\ runErr' = FALSE
  /\ exit' = -1
  /\ ctxDone' = FALSE
  /\ db' = IF db = "open" THEN "closed" ELSE db
  /\ listener' = IF listener = "open" THEN "closed" ELSE listener
  /\ ticker' = IF ticker = "running" THEN "stopped" ELSE ticker
  /\ notify' = <<>>
  /\ tick' = FALSE
  /\ count' = FALSE
  /\ domainCount' = FALSE
  /\ domErr' = FALSE
  /\ reloadErr' = FALSE
  /\ cycleErr' = FALSE
  /\ unread' = FALSE
  /\ caller' = "none"
  /\ domains' = <<>>
  /\ idx' = 0
  /\ snap' = 0
  /\ inflight' = 0
  /\ nInit' = 0
  /\ reloads' = 0
  /\ arrived' = FALSE
  /\ tried' = {}
  /\ pubDom' = "none"
  /\ pubOld' = NoFile
  /\ pubRes' = "none"
  /\ waited' = FALSE
  /\ subLost' = FALSE
  /\ lastCheck' = -1
  /\ UNCHANGED <<renderVars, envVars>>
  /\ UNCHANGED <<storeVars, fs, setupRes>>

\* ------------------------------------------------------------ Reloader.Run

\* The connect loop is over without a connection when its i has reached 10:
\* i < 10 is false and dbConnected is still false.
BudgetSpentEarly(i) == i >= MaxAttempts - 1

BudgetSpent(i) == i >= MaxAttempts

\* connectDB fails: sleep and try again; after the last attempt Run returns
\* "failed to connect to database after 10 attempts".
connectDBFail ==
  /\ pc = "connect"
  /\ attempts < MaxAttempts
  /\ attempts' = attempts + 1
  /\ IF BudgetSpent(attempts + 1)
     THEN pc' = "cleanup" /\ runErr' = TRUE
     ELSE UNCHANGED <<pc, runErr>>
  /\ UNCHANGED <<retVars, unread, renderVars, envVars, lastCheck>>
  /\ UNCHANGED <<exit, db, listener, ticker, ctxDone, chanVars, storeVars,
                 pollVars, fs, loopVars, syncVars, pubVars, runVars>>

\* connectDB succeeds: r.db and r.rawDB are set, the loop is left (and its i
\* with it).
connectDBOk ==
  /\ pc = "connect"
  /\ attempts < MaxAttempts
  /\ db' = "open"
  /\ attempts' = 0
  /\ pc' = "setup"
  /\ UNCHANGED <<retVars, unread, renderVars, envVars, lastCheck>>
  /\ UNCHANGED <<runErr, exit, listener, ticker, ctxDone, chanVars,
                 storeVars, pollVars, fs, loopVars, syncVars, pubVars, runVars>>

\* Where listenForNotifications starts: with the initial regenerateAllZones.
ListenEntryNoResync == "listen_select"

ListenEntry == "listen_init"

\* Where pollForChanges starts.
PollEntry == "poll_init"

\* if err := r.setupListener(); err != nil { return r.pollForChanges() }
\* return r.listenForNotifications()
AfterSetupAlwaysPoll(ok) == PollEntry

AfterSetupNoFallback(ok) == IF ok THEN ListenEntry ELSE "cleanup"

AfterSetup(ok) == IF ok THEN ListenEntry ELSE PollEntry

\* listener.Listen succeeds: r.listener is set.
setupListenerOk ==
  /\ pc = "setup"
  /\ listener' = "open"
  /\ setupRes' = "ok"
  /\ pc' = AfterSetup(TRUE)
  /\ runErr' = (pc' = "cleanup")
  /\ UNCHANGED <<retVars, unread, renderVars, envVars, lastCheck>>
  /\ UNCHANGED <<attempts, exit, db, ticker, ctxDone, chanVars, storeVars,
                 pollVars, fs, loopVars, syncVars, pubVars, waited,
                 subLost>>

\* listener.Listen fails: r.listener stays nil.
setupListenerFail ==
  /\ pc = "setup"
  /\ setupRes' = "fail"
  /\ pc' = AfterSetup(FALSE)
  /\ runErr' = (pc' = "cleanup")
  /\ UNCHANGED <<retVars, unread, renderVars, envVars, lastCheck>>
  /\ UNCHANGED <<attempts, exit, db, listener, ticker, ctxDone, chanVars,
                 storeVars, pollVars, fs, loopVars, syncVars, pubVars,
                 waited, subLost>>

\* defer r.cleanup(); then main: Fatal (exit status 1) on an error of Run,
\* otherwise "stopped" and exit status 0.
cleanup ==
  /\ pc = "cleanup"
  /\ listener' = IF listener = "open" THEN "closed" ELSE listener
  /\ db' = IF db = "open" THEN "closed" ELSE db
  /\ exit' = IF runErr THEN 1 ELSE 0
  /\ pc' = "exited"
  /\ UNCHANGED <<retVars, unread, renderVars, envVars, lastCheck>>
  /\ UNCHANGED <<attempts, runErr, ticker, ctxDone, chanVars, storeVars, pollVars,
                 fs, loopVars, syncVars, pubVars, runVars>>

\* ------------------------------------------------------ regenerateAllZones

\* A call of regenerateAllZones by `c`: "listen_init", "poll_init", or
\* triggerCoreReload called from the "listen" or the "poll" loop.
CallRegen(c) ==
  /\ pc' = "regen"
  /\ caller' = c
  /\ inflight' = inflight + 1
  /\ nInit' = IF waited' THEN nInit ELSE nInit + 1
  /\ arrived' = FALSE
  /\ reloads' = 0
  /\ UNCHANGED <<domains, idx, snap, tried, pubVars>>

\* Where the goroutine goes on when regenerateAllZones has returned.  The two
\* initial calls log an error and go on to the select; triggerCoreReload
\* returns the error before the reload, and both loops log it.
AfterRegen(c, err) ==
  CASE c = "listen_init" -> "listen_select"
    [] c = "poll_init"   -> "poll_select"
    [] c = "listen"      -> IF err THEN "listen_select" ELSE "reload"
    [] OTHER             -> IF err THEN "poll_advance" ELSE "reload"

\* regenerateAllZones returns: its locals are gone.
Return(err) ==
  /\ pc' = AfterRegen(caller, err)
  /\ caller' = IF pc' = "reload" THEN caller ELSE "none"
  /\ domains' = <<>>
  /\ idx' = 0
  /\ snap' = 0
  /\ inflight' = inflight - 1
  /\ tried' = {}
  /\ pubDom' = "none"
  /\ pubOld' = NoFile
  /\ pubRes' = "none"
  /\ UNCHANGED <<nInit, reloads, arrived>>

\* r.db.WithContext(r.ctx): a query of the store made with the context of the
\* process can complete only while the context is not cancelled.
WithContextIgnored(done) == TRUE

WithContext(done) == ~done

\* Find(&domains) fails (it always does once r.ctx is cancelled).
ListDomainsFail ==
  /\ pc = "regen"
  /\ Return(TRUE)
  /\ unread' = FALSE
  /\ UNCHANGED <<retVars, renderVars, envVars, lastCheck>>
  /\ UNCHANGED <<procVars, ctxDone, chanVars, storeVars, pollVars, fs, runVars>>

\* Find(&domains) returns the domains of the store, in some order.
ListDomainsOk ==
  /\ pc = "regen"
  /\ WithContext(ctxDone)
  /\ \E l \in Listings(doms) : domains' = l
  /\ idx' = 1
  /\ pc' = "loop"
  /\ unread' = FALSE
  /\ UNCHANGED <<retVars, renderVars, envVars, lastCheck>>
  /\ UNCHANGED <<procVars, ctxDone, chanVars, storeVars, pollVars, fs, caller,
                 snap, syncVars, pubVars, runVars>>

\* The index the loop goes on with after the domain at i (of n) failed:
\* `continue`.
AbortOnFailure(i, n) == n + 1

AfterFailure(i, n) == i + 1

\* for _, domain := range domains is over: "Zone regeneration completed",
\* return nil.
LoopEnd ==
  /\ pc = "loop"
  /\ idx > Len(domains)
  /\ Return(FALSE)
  /\ UNCHANGED <<retVars, unread, renderVars, envVars, lastCheck>>
  /\ UNCHANGED <<procVars, ctxDone, chanVars, storeVars, pollVars, fs, runVars>>

\* Where("domain_id = ?", domain.ID).Find(&records) fails: log, continue.
FetchFail ==
  /\ pc = "loop"
  /\ idx <= Len(domains)
  /\ tried' = tried \cup {domains[idx]}
  /\ idx' = AfterFailure(idx, Len(domains))
  /\ pubDom' = "none"
  /\ pubOld' = NoFile
  /\ pubRes' = "none"
  /\ unread' = FALSE
  /\ UNCHANGED <<retVars, renderVars, envVars, lastCheck>>
  /\ UNCHANGED <<pc, procVars, ctxDone, chanVars, storeVars, pollVars, fs, caller,
                 domains, snap, inflight, nInit, reloads, arrived, runVars>>

\* The records of the domain are fetched; generateZoneFile is called and
\* builds the text.
FetchOk ==
  /\ pc = "loop"
  /\ idx <= Len(domains)
  /\ WithContext(ctxDone)
  /\ snap' = ver
  /\ pubDom' = domains[idx]
  /\ pubOld' = fs[zonePath(domains[idx])]
  /\ pubRes' = "run"
  /\ tried' = tried \cup {domains[idx]}
  /\ pc' = "gen"
  /\ unread' = FALSE
  /\ UNCHANGED <<retVars, renderVars, envVars, lastCheck>>
  /\ UNCHANGED <<procVars, ctxDone, chanVars, storeVars, pollVars, fs, caller,
                 domains, idx, inflight, nInit, reloads, arrived, runVars>>

\* --------------------------------------------- generateZoneFile: publishing

\* The path os.WriteFile writes the text to: tempPath.
WritePathDirect(d) == zonePath(d)

WritePath(d) == tempPath(d)

\* generateZoneFile returns an error: the loop logs it and continues.
GenError ==
  /\ pubRes' = "err"
  /\ idx' = AfterFailure(idx, Len(domains))
  /\ snap' = 0
  /\ pc' = "loop"
  /\ UNCHANGED <<retVars, unread, renderVars, envVars, lastCheck>>
  /\ UNCHANGED <<procVars, ctxDone, chanVars, storeVars, pollVars, fs, caller,
                 domains, syncVars, pubDom, pubOld, runVars>>

\* os.MkdirAll fails: "failed to create zones directory".
MkdirFail ==
  /\ pc = "gen"
  /\ GenError

\* os.WriteFile opens the file with O_CREATE|O_TRUNC: it exists and holds a
\* strict prefix of the text until the write is over.
WriteOpen ==
  /\ pc = "gen"
  /\ fs' = [fs EXCEPT ![WritePath(domains[idx])] =
                         PartFile(zoneContent(domains[idx], snap))]
  /\ pc' = "write"
  /\ UNCHANGED <<retVars, unread, renderVars, envVars, lastCheck>>
  /\ UNCHANGED <<procVars, ctxDone, chanVars, storeVars, pollVars, loopVars,
                 syncVars, pubVars, runVars>>

\* os.WriteFile fails, at the open (pc = "gen", nothing is written) or
\* part-way (pc = "write", the prefix stays): "failed to write temporary zone
\* file".
WriteFail ==
  /\ pc \in {"gen", "write"}
  /\ GenError

\* The write completes.
WriteOk ==
  /\ pc = "write"
  /\ fs' = [fs EXCEPT ![WritePath(domains[idx])] =
                         FullFile(zoneContent(domains[idx], snap))]
  /\ pc' = "rename"
  /\ UNCHANGED <<retVars, unread, renderVars, envVars, lastCheck>>
  /\ UNCHANGED <<procVars, ctxDone, chanVars, storeVars, pollVars, loopVars,
                 syncVars, pubVars, runVars>>

\* os.Rename fails: "failed to move zone file"; both paths stay as they are.
RenameFail ==
  /\ pc = "rename"
  /\ GenError

\* os.Rename(tempPath, zonePath) replaces the target in one step.
RenameOk ==
  /\ pc = "rename"
  /\ fs[tempPath(domains[idx])] # NoFile
  /\ fs' = [fs EXCEPT ![zonePath(domains[idx])] = fs[tempPath(domains[idx])],
                      ![tempPath(domains[idx])] = NoFile]
  /\ pubRes' = "ok"
  /\ idx' = idx + 1
  /\ snap' = 0
  /\ pc' = "loop"
  /\ UNCHANGED <<retVars, unread, renderVars, envVars, lastCheck>>
  /\ UNCHANGED <<procVars, ctxDone, chanVars, storeVars, pollVars, caller,
                 domains, syncVars, pubDom, pubOld, runVars>>

\* ------------------------------------------------------- triggerCoreReload

\* Where triggerCoreReload returns to.
AfterReload(c) == IF c = "listen" THEN "listen_select" ELSE "poll_advance"

\* What triggerCoreReload returns after the reload command, given whether
\* the command failed: a failure is logged as a warning and nil is returned.
ReloadResultPropagated(failed) == failed

ReloadResult(failed) == FALSE

\* The reload command has been tried: triggerCoreReload is about to return.
ReloadTried(failed) ==
  /\ reloadErr' = failed
  /\ cycleErr' = ReloadResult(failed)
  /\ pc' = "reload_ret"
  /\ UNCHANGED <<unread, renderVars, envVars, lastCheck>>
  /\ UNCHANGED <<procVars, ctxDone, chanVars, storeVars, pollVars, fs,
                 loopVars, inflight, nInit, arrived, tried, pubVars, runVars>>

\* docker exec <container> sh -c "kill -USR1 1" is run and succeeds: "CoreDNS
\* reload signal sent successfully".
ReloadRun ==
  /\ pc = "reload"
  /\ ~ctxDone
  /\ reloads' = reloads + 1
  /\ ReloadTried(FALSE)

\* The command is run and fails: "Failed to send SIGUSR1, relying on
\* auto-reload".
ReloadFail ==
  /\ pc = "reload"
  /\ ~ctxDone
  /\ reloads' = reloads + 1
  /\ ReloadTried(TRUE)

\* With r.ctx cancelled exec.CommandContext does not start the command and
\* CombinedOutput returns the error of the context.
ReloadCancelled ==
  /\ pc = "reload"
  /\ ctxDone
  /\ UNCHANGED reloads
  /\ ReloadTried(TRUE)

\* triggerCoreReload returns; its caller logs an error it returns and goes on.
ReloadReturn ==
  /\ pc = "reload_ret"
  /\ pc' = AfterReload(caller)
  /\ caller' = "none"
  /\ reloadErr' = FALSE
  /\ cycleErr' = FALSE
  /\ UNCHANGED <<unread, renderVars, envVars, lastCheck>>
  /\ UNCHANGED <<procVars, ctxDone, chanVars, storeVars, pollVars, fs, domains,
                 idx, snap, syncVars, pubVars, runVars>>

\* -------------------------------------------------- listenForNotifications

\* regenerateAllZones is called before the loop: "Generate initial zones on
\* startup".
ListenInit ==
  /\ pc = "listen_init"
  /\ UNCHANGED <<retVars, unread, renderVars, envVars, lastCheck>>
  /\ UNCHANGED <<procVars, ctxDone, chanVars, storeVars, pollVars, fs, runVars>>
  /\ CallRegen("listen_init")

\* The goroutine receives from listener.Notify only in the select of the
\* loop, that is when no call of triggerCoreReload is running.
ReceivesAnywhere(p) ==
  p \in {"listen_select", "regen", "loop", "gen", "write", "rename", "reload"}

ReceivesAt(p) == p = "listen_select"

\* case <-r.ctx.Done(): return nil
ListenDone ==
  /\ pc = "listen_select"
  /\ ctxDone
  /\ runErr' = FALSE
  /\ waited' = TRUE
  /\ pc' = "cleanup"
  /\ UNCHANGED <<retVars, unread, renderVars, envVars, lastCheck>>
  /\ UNCHANGED <<attempts, exit, db, listener, ticker, ctxDone, chanVars,
                 storeVars, pollVars, fs, loopVars, syncVars, pubVars,
                 subLost, setupRes>>

\* case notification := <-r.listener.Notify with notification == nil:
\* nothing is done.
ReceiveNil ==
  /\ ReceivesAt(pc)
  /\ notify # <<>>
  /\ Head(notify) = "nil"
  /\ notify' = Tail(notify)
  /\ waited' = TRUE
  /\ UNCHANGED <<retVars, unread, renderVars, envVars, lastCheck>>
  /\ UNCHANGED <<pc, procVars, ctxDone, tick, storeVars, pollVars, fs, loopVars,
                 syncVars, pubVars, subLost, setupRes>>

\* notification.Extra: the payload the triggers of the store build with
\* json_build_object, naming the table, the action and the domain of the row.
Payloads == [table : {"records", "domains"}, action : {"INSERT", "DELETE"},
             domain : DomainNames]

\* The change triggerCoreReload is called with for a notification carrying
\* the payload p: &DNSChangeNotification{Table: "records", Action:
\* "NOTIFICATION"}, which the model names "listen".  The payload is logged
\* and not parsed.
NotificationChangeOfPayload(p) == p.table

NotificationChange(p) == "listen"

\* case notification := <-r.listener.Notify with a notification:
\* triggerCoreReload is called, which calls regenerateAllZones.
Receive ==
  /\ ReceivesAt(pc)
  /\ notify # <<>>
  /\ Head(notify) # "nil"
  /\ notify' = Tail(notify)
  /\ waited' = TRUE
  /\ \E p \in Payloads : CallRegen(NotificationChange(p))
  /\ UNCHANGED <<retVars, unread, renderVars, envVars, lastCheck>>
  /\ UNCHANGED <<procVars, ctxDone, tick, storeVars, pollVars, fs, subLost,
                 setupRes>>

\* case <-time.After(30 * time.Second): the timer is created anew by every
\* select, so it fires only when neither ctx.Done() nor Notify had anything
\* for 30 seconds.  listener.Ping() is called.
PingStart ==
  /\ pc = "listen_select"
  /\ ~ctxDone
  /\ notify = <<>>
  /\ waited' = TRUE
  /\ pc' = "listen_ping"
  /\ UNCHANGED <<retVars, unread, renderVars, envVars, lastCheck>>
  /\ UNCHANGED <<procVars, ctxDone, chanVars, storeVars, pollVars, fs,
                 loopVars, syncVars, pubVars, subLost, setupRes>>

\* listener.Ping() returns nil: the loop goes on.
PingOk ==
  /\ pc = "listen_ping"
  /\ pc' = "listen_select"
  /\ UNCHANGED <<retVars, unread, renderVars, envVars, lastCheck>>
  /\ UNCHANGED <<procVars, ctxDone, chanVars, storeVars, pollVars, fs,
                 loopVars, syncVars, pubVars, runVars>>

\* listener.Ping() fails: "Lost connection to PostgreSQL", return err.
PingFail ==
  /\ pc = "listen_ping"
  /\ subLost' = TRUE
  /\ runErr' = TRUE
  /\ pc' = "cleanup"
  /\ UNCHANGED <<retVars, unread, renderVars, envVars, lastCheck>>
  /\ UNCHANGED <<attempts, exit, db, listener, ticker, ctxDone, chanVars,
                 storeVars, pollVars, fs, loopVars, syncVars, pubVars,
                 waited, setupRes>>

\* ---------------------------------------------------------- pollForChanges

\* time.Now().Add(-1 * time.Minute)
StartCheckNow(t) == t

StartCheck(t) == t - 1

\* lastCheck := time.Now().Add(-1 * time.Minute): the rows changed in the last
\* minute, if any, are newer than lastCheck.  The ticker is started and
\* regenerateAllZones is called: "Initial zone generation".  time.NewTicker
\* panics when the interval is not positive: the deferred cleanup of Run
\* runs and the process ends with the status 2.
PollInit ==
  /\ pc = "poll_init"
  /\ IF pollInterval > 0
     THEN /\ lastCheck' = StartCheck(clock)
          /\ ticker' = "running"
          /\ recChanged' \in BOOLEAN
          /\ domChanged' \in BOOLEAN
          /\ UNCHANGED <<retVars, unread, renderVars, envVars>>
          /\ UNCHANGED <<attempts, runErr, exit, db, listener, ctxDone,
                         chanVars, pollVars, ver, fs, runVars>>
          /\ CallRegen("poll_init")
     ELSE /\ pc' = "panic"
          /\ exit' = 2
          /\ listener' = IF listener = "open" THEN "closed" ELSE listener
          /\ db' = IF db = "open" THEN "closed" ELSE db
          /\ UNCHANGED <<retVars, unread, renderVars, envVars, lastCheck>>
          /\ UNCHANGED <<attempts, runErr, ticker, ctxDone, chanVars,
                         storeVars, pollVars, fs, loopVars, syncVars, pubVars,
                         runVars>>

\* case <-r.ctx.Done(): return nil, and the deferred ticker.Stop().
PollDone ==
  /\ pc = "poll_select"
  /\ ctxDone
  /\ ticker' = "stopped"
  /\ runErr' = FALSE
  /\ waited' = TRUE
  /\ pc' = "cleanup"
  /\ UNCHANGED <<retVars, unread, renderVars, envVars, lastCheck>>
  /\ UNCHANGED <<attempts, exit, db, listener, ctxDone, chanVars, storeVars,
                 pollVars, fs, loopVars, syncVars, pubVars, subLost,
                 setupRes>>

\* case <-ticker.C and the count of the records fails: "Failed to check for
\* changes", continue (lastCheck is not touched).
PollCountFail ==
  /\ pc = "poll_select"
  /\ tick
  /\ tick' = FALSE
  /\ waited' = TRUE
  /\ unread' = FALSE
  /\ UNCHANGED <<retVars, renderVars, envVars, lastCheck>>
  /\ UNCHANGED <<pc, procVars, ctxDone, notify, storeVars, pollVars, fs, loopVars,
                 syncVars, pubVars, subLost, setupRes>>

\* case <-ticker.C and the count of the records changed since lastCheck.
PollCountOk ==
  /\ pc = "poll_select"
  /\ tick
  /\ WithContext(ctxDone)
  /\ tick' = FALSE
  /\ waited' = TRUE
  /\ count' = recChanged
  /\ pc' = "poll_count"
  /\ UNCHANGED <<domainCount, domErr, retVars, unread, renderVars, envVars, lastCheck>>
  /\ UNCHANGED <<procVars, ctxDone, notify, storeVars, fs, loopVars, syncVars,
                 pubVars, subLost, setupRes>>

\* The count of the domains changed since lastCheck: when the query fails the
\* error is logged and domainCount stays 0.
PollDomainCount ==
  /\ pc = "poll_count"
  /\ \E ok \in {FALSE, WithContext(ctxDone)} :
       /\ domErr' = ~ok
       /\ domainCount' = (ok /\ domChanged)
       /\ unread' = (ok /\ unread)
  /\ pc' = "poll_total"
  /\ UNCHANGED <<retVars, renderVars, envVars, lastCheck>>
  /\ UNCHANGED <<procVars, ctxDone, chanVars, storeVars, count, fs, loopVars,
                 syncVars, pubVars, runVars>>

\* totalChanges := count + domainCount; if totalChanges > 0 triggerCoreReload
\* is called.
PollTotal ==
  /\ pc = "poll_total"
  /\ UNCHANGED <<retVars, unread, renderVars, envVars, lastCheck>>
  /\ UNCHANGED <<procVars, ctxDone, chanVars, storeVars, fs, runVars>>
  /\ IF count \/ domainCount
     THEN CallRegen("poll")
     ELSE /\ pc' = "poll_advance"
          /\ UNCHANGED <<loopVars, syncVars, pubVars>>
  /\ count' = FALSE
  /\ domainCount' = FALSE
  /\ domErr' = FALSE

\* lastCheck = time.Now(): no row is newer than lastCheck any more.
PollAdvance ==
  /\ pc = "poll_advance"
  /\ recChanged' = FALSE
  /\ domChanged' = FALSE
  /\ lastCheck' = clock
  /\ pc' = "poll_select"
  /\ UNCHANGED <<retVars, unread, renderVars, envVars>>
  /\ UNCHANGED <<procVars, ctxDone, chanVars, ver, pollVars, fs, loopVars,
                 syncVars, pubVars, runVars>>

\* ------------------------------------------------------------ specification

Next ==
  \/ Mutate
  \/ \E t \in {"records", "domains"} : Touch(t)
  \/ Reconnect
  \/ TickFire
  \/ Signal
  \/ Kill
  \/ connectDBFail
  \/ connectDBOk
  \/ setupListenerOk
  \/ setupListenerFail
  \/ cleanup
  \/ ListenInit
  \/ ListenDone
  \/ ReceiveNil
  \/ Receive
  \/ PingStart
  \/ PingOk
  \/ PingFail
  \/ PollInit
  \/ PollDone
  \/ PollCountFail
  \/ PollCountOk
  \/ PollDomainCount
  \/ PollTotal
  \/ PollAdvance
  \/ ListDomainsFail
  \/ ListDomainsOk
  \/ LoopEnd
  \/ FetchFail
  \/ FetchOk
  \/ MkdirFail
  \/ WriteOpen
  \/ WriteFail
  \/ WriteOk
  \/ RenameFail
  \/ RenameOk
  \/ ReloadRun
  \/ ReloadFail
  \/ ReloadCancelled
  \/ ReloadReturn

Spec == Init /\ [][Next]_vars

\* The steps of the goroutine of Run.
Proc ==
  \/ connectDBFail
  \/ connectDBOk
  \/ setupListenerOk
  \/ setupListenerFail
  \/ cleanup
  \/ ListenInit
  \/ ListenDone
  \/ ReceiveNil
  \/ Receive
  \/ PingStart
  \/ PingOk
  \/ PingFail
  \/ PollInit
  \/ PollDone
  \/ PollCountFail
  \/ PollCountOk
  \/ PollDomainCount
  \/ PollTotal
  \/ PollAdvance
  \/ ListDomainsFail
  \/ ListDomainsOk
  \/ LoopEnd
  \/ FetchFail
  \/ FetchOk
  \/ MkdirFail
  \/ WriteOpen
  \/ WriteFail
  \/ WriteOk
  \/ RenameFail
  \/ RenameOk
  \/ ReloadRun
  \/ ReloadFail
  \/ ReloadCancelled
  \/ ReloadReturn

\* The goroutine of Run is scheduled again and again, and a running ticker
\* fires again and again; a select with several ready cases chooses one at
\* random, so the case of ctx.Done() is not passed over for ever.
LiveSpec ==
  /\ Spec
  /\ WF_vars(Proc)
  /\ WF_vars(TickFire)
  /\ SF_vars(ListenDone)
  /\ SF_vars(PollDone)

\* ------------------------------------------- generateZoneFile: the zone text

\* A string is the sequence of its pieces: single characters where the code
\* looks at them (the dot, the double quote), runs of characters elsewhere.
\* www.a is <<"www", ".", "a">>.
ZoneDomain == <<"a">>

Dot == "."

Quote == "\""

\* Prio *int: the nil pointer of a row whose prio is NULL.
Null == -1

\* A row of the records table.
Row(i, t, n, l, p, c, dis, au) ==
  [id |-> i, type |-> t, name |-> n, ttl |-> l, prio |-> p, content |-> c,
   disabled |-> dis, auth |-> au]

\* strings.HasSuffix and strings.HasPrefix (endsWith and startsWith of the
\* admin layer)
HasSuffix(name, suffix) ==
  /\ Len(name) >= Len(suffix)
  /\ SubSeq(name, Len(name) - Len(suffix) + 1, Len(name)) = suffix

HasPrefix(s, prefix) ==
  /\ Len(s) >= Len(prefix)
  /\ SubSeq(s, 1, Len(prefix)) = prefix

\* content.includes(' ') and content.split(' '): the places of the spaces,
\* the part before the first one and the part between the first and the
\* second one (or the end).
Spaces(c) == {i \in DOMAIN c : c[i] = " "}

FirstSpace(c) == CHOOSE i \in Spaces(c) : \A j \in Spaces(c) : i <= j

Part1(c) == SubSeq(c, 1, FirstSpace(c) - 1)

Part2(c) ==
  LET rest == SubSeq(c, FirstSpace(c) + 1, Len(c))
  IN  IF Spaces(rest) = {} THEN rest ELSE SubSeq(rest, 1, FirstSpace(rest) - 1)

\* x.endsWith('.') ? x : x + '.'
WithDot(x) == IF HasSuffix(x, <<Dot>>) THEN x ELSE x \o <<Dot>>

\* validateRecordContent of the admin layer passes: a CNAME or NS content
\* ends with a dot; an MX content has a space and the part after the first
\* space ends with a dot.  (The patterns of A and AAAA are not modelled; a
\* TXT content of the model is never longer than 255.)
validateMX(c) == Spaces(c) # {} /\ HasSuffix(Part2(c), <<Dot>>)

validateRecordContent(t, c) ==
  CASE t \in {"CNAME", "NS"} -> HasSuffix(c, <<Dot>>)
    [] t = "MX" -> validateMX(c)
    [] OTHER -> TRUE

\* formatRecordContent of the admin layer: a CNAME or NS host name gets a
\* final dot when it has none, and so does the host name of an MX content,
\* alone or after a priority; a TXT content is kept when it starts and ends
\* with a double quote and wrapped otherwise; the content of the other types
\* is returned as it is.
formatRecordContent(t, c) ==
  CASE t \in {"CNAME", "NS"} -> WithDot(c)
    [] t = "MX" ->
         IF Spaces(c) = {} THEN WithDot(c)
         ELSE Part1(c) \o <<" ">> \o WithDot(Part2(c))
    [] t = "TXT" ->
         IF HasPrefix(c, <<Quote>>) /\ HasSuffix(c, <<Quote>>)
         THEN c
         ELSE <<Quote>> \o c \o <<Quote>>
    [] OTHER -> c

\* Rows the store can hold for the domain: written with SQL (as the seed rows
\* of init.sql are) or created through the admin layer, which formats the
\* content.
RecordPool ==
  { Row(1, "SOA", <<"a">>, 3600, Null,
        <<"ns1.a. admin.a. 1 7200 3600 1209600 3600">>, FALSE, TRUE),
    Row(2, "A", <<"www", Dot, "a">>, 300, Null, <<"10.0.0.1">>, FALSE, TRUE),
    Row(3, "A", <<"x", "a">>, 300, Null, <<"10.0.0.2">>, FALSE, TRUE),
    Row(4, "MX", <<"a">>, 300, Null, <<"mail.a.">>, FALSE, TRUE),
    Row(5, "AAAA", <<"www", Dot, "a">>, 300, Null, <<"fd00::1">>, FALSE, TRUE),
    Row(6, "NS", <<"a">>, 3600, Null, <<"ns1.a.">>, FALSE, TRUE),
    Row(7, "TXT", <<"a">>, 3600, Null, <<"v=spf1 mx ~all">>, FALSE, TRUE),
    Row(8, "TXT", <<"a">>, 3600, Null,
        formatRecordContent("TXT", <<"v=DMARC1">>), FALSE, TRUE),
    Row(9, "TXT", <<"t", Dot, "a">>, 3600, Null, <<Quote, "open">>, FALSE, TRUE),
    Row(10, "A", <<"off", Dot, "a">>, 300, Null, <<"10.0.0.3">>, TRUE, TRUE),
    Row(11, "SOA", <<"a">>, 3600, Null,
        <<"ns2.a. admin.a. 2 7200 3600 1209600 3600">>, FALSE, FALSE),
    Row(12, "CNAME", <<"ext", Dot, "b", Dot>>, 300, Null, <<"www.a.">>,
        FALSE, TRUE),
    Row(13, "MX", <<"a">>, 300, 20, <<"mail2.a.">>, FALSE, TRUE),
    Row(14, "SOA", <<"a">>, 3600, Null,
        <<"ns3.a. admin.a. 3 7200 3600 1209600 3600">>, TRUE, TRUE),
    Row(15, "PTR", <<"ptr", Dot, "a">>, 300, Null, <<"host.a.">>, FALSE, TRUE),
    Row(16, "SRV", <<"_sip", Dot, "a">>, 300, 5, <<"0 5060 sip.a.">>,
        FALSE, TRUE),
    Row(17, "A", <<"bad", Dot, "a">>, 300, Null, <<>>, FALSE, TRUE) }

\* Orders in which Find(&records) may return the rows (no ORDER BY).
Orders(S) ==
  {q \in [1..Cardinality(S) -> S] : \A i, j \in DOMAIN q : i # j => q[i] # q[j]}

\* strings.ToUpper on the type of a row.
ToUpper(t) ==
  CASE t = "soa" -> "SOA"
    [] t = "ns" -> "NS"
    [] t = "a" -> "A"
    [] t = "aaaa" -> "AAAA"
    [] t = "cname" -> "CNAME"
    [] t = "mx" -> "MX"
    [] t = "txt" -> "TXT"
    [] OTHER -> t

\* recordsByType[t]: the rows that are not disabled and are authoritative,
\* of the type, in the order of the fetch.
recordsByTypeUnfiltered(recs, t) ==
  SelectSeq(recs, LAMBDA r : ToUpper(r.type) = t)

recordsByType(recs, t) ==
  SelectSeq(recs, LAMBDA r : ~r.disabled /\ r.auth /\ ToUpper(r.type) = t)

\* strings.TrimSuffix of a suffix the string has
TrimSuffix(name, suffix) == SubSeq(name, 1, Len(name) - Len(suffix))

\* cleanRecordName: "@" for the domain itself, the name without
\* "." + domainName when it ends with it, and the name as it is otherwise.
cleanRecordNameNoDot(name, domainName) ==
  IF name = domainName THEN <<"@">>
  ELSE IF HasSuffix(name, domainName)
       THEN TrimSuffix(name, domainName)
       ELSE name

cleanRecordName(name, domainName) ==
  IF name = domainName THEN <<"@">>
  ELSE IF HasSuffix(name, <<Dot>> \o domainName)
       THEN TrimSuffix(name, <<Dot>> \o domainName)
       ELSE IF HasSuffix(name, <<Dot>>)
            THEN name
            ELSE name

\* priority := 10; if record.Prio != nil { priority = *record.Prio }
PriorityAlwaysDefault(r) == 10

Priority(r) == IF r.prio = Null THEN 10 ELSE r.prio

\* The rdata of the line of a row: MX puts the priority (10 when prio is
\* NULL) before the content, TXT wraps the content in double quotes unless
\* it starts with one, the others give the content.
Rdata(r, t) ==
  CASE t = "MX"  -> <<Priority(r)>> \o r.content
    [] t = "TXT" -> IF ~HasPrefix(r.content, <<Quote>>)
                    THEN <<Quote>> \o r.content \o <<Quote>>
                    ELSE r.content
    [] OTHER     -> r.content

\* "%-20s %d IN <type> %s\n": name, ttl, class, type, rdata.
RecordLine(d, r, t) == <<cleanRecordName(r.name, d), r.ttl, "IN", t, Rdata(r, t)>>

Blank == <<>>

\* The section of a type: the lines of its rows and a blank line, nothing
\* when recordsByType has no entry for the type.
SectionWithEmpty(d, recs, t) ==
  [i \in 1..Len(recordsByType(recs, t)) |->
      RecordLine(d, recordsByType(recs, t)[i], t)] \o <<Blank>>

Section(d, recs, t) ==
  LET rs == recordsByType(recs, t)
  IN  IF rs = <<>> THEN <<>>
      ELSE [i \in 1..Len(rs) |-> RecordLine(d, rs[i], t)] \o <<Blank>>

\* The two digits of a number below 100.
Digits2(n) == <<n \div 10, n % 10>>

\* time.Now().Format("2006010215"): year, month, day and hour of the clock in
\* ten digits.  The clock of the model counts the hours from 2026-01-01 00h
\* and stays within January.
Format(hour) ==
  <<2, 0, 2, 6>> \o <<0, 1>> \o Digits2(1 + (hour \div 24)) \o Digits2(hour % 24)

\* "Generate default SOA if missing": name "@", ttl 3600, and the rdata
\* ns1.<domain>. admin.<domain>. <serial> 7200 3600 1209600 3600.
DefaultSOA(d, hour) ==
  <<<<"@">>, 3600, "IN", "SOA",
    <<<<"ns1", Dot>> \o d \o <<Dot>>, <<"admin", Dot>> \o d \o <<Dot>>,
      Format(hour), 7200, 3600, 1209600, 3600>>>>

\* The SOA section: the stored SOA rows when recordsByType has some, the
\* default one otherwise.
SOASectionAnyStored(d, recs, hour) ==
  IF recordsByTypeUnfiltered(recs, "SOA") # <<>>
  THEN Section(d, recs, "SOA")
  ELSE <<DefaultSOA(d, hour), Blank>>

SOASection(d, recs, hour) ==
  IF recordsByType(recs, "SOA") # <<>>
  THEN Section(d, recs, "SOA")
  ELSE <<DefaultSOA(d, hour), Blank>>

\* The text generateZoneFile builds: header, SOA, NS, A, CNAME, MX, TXT.  The
\* entries of recordsByType for other types are never read.
ZoneTextWithOthers(d, recs, hour) ==
  <<<<"$ORIGIN", d \o <<Dot>>>>, <<"$TTL", 300>>, Blank>>
    \o SOASection(d, recs, hour)
    \o Section(d, recs, "NS")
    \o Section(d, recs, "A")
    \o Section(d, recs, "CNAME")
    \o Section(d, recs, "MX")
    \o Section(d, recs, "TXT")
    \o Section(d, recs, "PTR")
    \o Section(d, recs, "SRV")

ZoneText(d, recs, hour) ==
  <<<<"$ORIGIN", d \o <<Dot>>>>, <<"$TTL", 300>>, Blank>>
    \o SOASection(d, recs, hour)
    \o Section(d, recs, "NS")
    \o Section(d, recs, "A")
    \o Section(d, recs, "CNAME")
    \o Section(d, recs, "MX")
    \o Section(d, recs, "TXT")

\* the variables of the process, its channels, the store and the directory
procAll ==
  <<pc, attempts, runErr, exit, ctxDone, db, listener, notify, ticker, tick,
    recChanged, domChanged, count, ver, fs, caller, domains, idx, snap,
    inflight, nInit, reloads, arrived, waited, subLost, setupRes, tried,
    pubDom, pubOld, pubRes, domainCount, domErr, unread, reloadErr, cycleErr,
    doms, clock, lastCheck, pollInterval, adminRes>>

\* The domain has some of the rows of the pool; nothing is generated yet.
RenderInit ==
  /\ ProcInit
  /\ pollInterval = parseDuration(getEnv(ComposeInterval, DefaultInterval))
  /\ recSet \in {S \in SUBSET RecordPool : Cardinality(S) <= MaxRecords}
  /\ records = <<>>
  /\ now = 0
  /\ zoneText = <<>>

\* A resync of the domain with the store unchanged: the rows are fetched in
\* some order, some time after the previous run, and the text is built.
Regenerate ==
  /\ \E q \in Orders(recSet) : records' = q
  /\ \E h \in now..MaxHour : now' = h
  /\ zoneText' = ZoneText(ZoneDomain, records', now')
  /\ UNCHANGED <<recSet, procAll>>

\* createRecord of the admin layer for an existing domain: the content is
\* validated, and the row is created with the formatted content and, for MX
\* and SRV, the priority; a failed validation is thrown as "Failed to create
\* record".
createRecord(t, c, p) ==
  IF validateRecordContent(t, c)
  THEN [status |-> "created", type |-> t,
        content |-> formatRecordContent(t, c),
        prio |-> IF t \in {"MX", "SRV"} THEN p ELSE Null]
  ELSE [status |-> "error", type |-> t, content |-> c, prio |-> p]

\* Mail server names given to addMXRecord, and MX contents given to
\* createRecord: "10 mail.a." and "10 mail.a".
MailServers == {<<"mail", Dot, "a">>, <<"mail", Dot, "a", Dot>>}

MXContents == {<<"10", " ", "mail", Dot, "a", Dot>>,
               <<"10", " ", "mail", Dot, "a">>}

\* SpecializedRecords.addMXRecord(domainId, hostname, mailServer, priority):
\* createRecord with the mail server name, given a final dot, as content.
addMXRecord ==
  /\ \E m \in MailServers, p \in {10, 20} :
       adminRes' = createRecord("MX", WithDot(m), p)
  /\ UNCHANGED <<pc, attempts, runErr, exit, ctxDone, db, listener, notify,
                 ticker, tick, recChanged, domChanged, count, ver, fs, caller,
                 domains, idx, snap, inflight, nInit, reloads, arrived, waited,
                 subLost, setupRes, tried, pubDom, pubOld, pubRes, domainCount,
                 domErr, unread, reloadErr, cycleErr, doms, clock, lastCheck,
                 pollInterval, renderVars>>

\* createRecord called with an MX content that holds a priority.
createMXRecord ==
  /\ \E c \in MXContents : adminRes' = createRecord("MX", c, Null)
  /\ UNCHANGED <<pc, attempts, runErr, exit, ctxDone, db, listener, notify,
                 ticker, tick, recChanged, domChanged, count, ver, fs, caller,
                 domains, idx, snap, inflight, nInit, reloads, arrived, waited,
                 subLost, setupRes, tried, pubDom, pubOld, pubRes, domainCount,
                 domErr, unread, reloadErr, cycleErr, doms, clock, lastCheck,
                 pollInterval, renderVars>>

RenderNext ==
  \/ Regenerate
  \/ addMXRecord
  \/ createMXRecord

RenderSpec == RenderInit /\ [][RenderNext]_vars

\* ------------------------------- deletions, the clock and POLL_INTERVAL

\* A minute passes on the clock.
ClockTick ==
  /\ Running
  /\ clock < MaxClock
  /\ clock' = clock + 1
  /\ UNCHANGED <<retVars, unread, renderVars, doms, pollInterval, adminRes,
                 lastCheck>>
  /\ UNCHANGED <<pc, procVars, ctxDone, chanVars, storeVars, pollVars, fs,
                 loopVars, syncVars, pubVars, runVars>>

\* deleteRecord of the admin layer: record.destroy() removes the row.  The
\* trigger of the store notifies; no row gets a new updated_at.
DeleteRecord ==
  /\ Running
  /\ ver < MaxVer
  /\ ver' = ver + 1
  /\ Notified
  /\ unread' = TRUE
  /\ UNCHANGED <<retVars, renderVars, envVars, lastCheck>>
  /\ UNCHANGED <<pc, procVars, ctxDone, tick, recChanged, domChanged, pollVars,
                 fs, loopVars, inflight, nInit, reloads, tried, pubVars,
                 runVars>>

\* deleteDomain of the admin layer: the records of the domain and the row of
\* the domain are removed.
DeleteDomain ==
  /\ Running
  /\ \E d \in doms : doms' = doms \ {d}
  /\ Notified
  /\ unread' = TRUE
  /\ UNCHANGED <<retVars, renderVars, clock, pollInterval, adminRes,
                 lastCheck>>
  /\ UNCHANGED <<pc, procVars, ctxDone, tick, storeVars, pollVars, fs, loopVars,
                 inflight, nInit, reloads, tried, pubVars, runVars>>

\* The process is started with some value of POLL_INTERVAL.
EnvInit ==
  /\ ProcInit
  /\ \E e \in PollEnvs :
       pollInterval = parseDuration(getEnv(e, DefaultInterval))
  /\ recSet = {}
  /\ records = <<>>
  /\ now = 0
  /\ zoneText = <<>>

\* The steps of the goroutine of Run when the connection to the store is
\* made at once, the directory and the reload command do not fail and no
\* shutdown is asked for; rows are deleted and not otherwise changed.
EnvProc ==
  \/ connectDBOk
  \/ setupListenerOk
  \/ setupListenerFail
  \/ ListenInit
  \/ ReceiveNil
  \/ Receive
  \/ PingStart
  \/ PingOk
  \/ PollInit
  \/ PollCountFail
  \/ PollCountOk
  \/ PollDomainCount
  \/ PollTotal
  \/ PollAdvance
  \/ ListDomainsFail
  \/ ListDomainsOk
  \/ LoopEnd
  \/ FetchOk
  \/ WriteOpen
  \/ WriteOk
  \/ RenameOk
  \/ ReloadRun
  \/ ReloadReturn

EnvNext ==
  \/ EnvProc
  \/ TickFire
  \/ ClockTick
  \/ DeleteRecord
  \/ DeleteDomain

\* The goroutine is scheduled again and again and the running ticker fires
\* again and again.
EnvSpec ==
  /\ EnvInit
  /\ [][EnvNext]_vars
  /\ WF_vars(EnvProc)
  /\ WF_vars(TickFire)

\* ------------------------------------------------------------------ claims

ResyncPcs == {"regen", "loop", "gen", "write", "rename"}

SelectPcs == {"listen_select", "poll_select"}

\* Push mode: the process is subscribed to the notification channel.
InPush == listener = "open"

\* Poll mode: the ticker of pollForChanges runs.
InPoll == ticker = "running"

\* C1: of the notifications that arrive while one resync is running, only
\* one starts a resync afterwards: no resync is started by a notification that
\* arrived during a resync after another notification had arrived during it.
C1_Coalescing ==
  [][(pc = "listen_select" /\ pc' = "regen") => Head(notify) # "more"]_vars

\* C2: at most one call of regenerateAllZones is in progress, and it is the
\* one the goroutine of Run is in; this holds in Push mode, in Poll mode and
\* during the initial resync, whatever arrives meanwhile.
C2_MutualExclusion ==
  /\ inflight \in {0, 1}
  /\ inflight = 1 <=> pc \in ResyncPcs

\* A notification and then another arrived while a resync is running, and both
\* wait in listener.Notify.
C2_Witness ==
  /\ inflight = 1
  /\ arrived
  /\ Len(notify) >= 2
  /\ notify[Len(notify)] = "more"

\* C3: when the keepalive probe fails the process does not terminate with an
\* error: Run returns no error and the exit status is not 1.
C3_SubscriptionLostNonFatal == subLost => (~runErr /\ exit # 1)

\* C4: the target zone file of every domain is absent (nothing published
\* yet) or holds a complete text of that domain, at every point of every
\* publish; it never holds a prefix of a text.
C4_AtomicPublish ==
  \A d \in DomainNames :
    \/ fs[zonePath(d)] = NoFile
    \/ fs[zonePath(d)].full /\ fs[zonePath(d)].text.dom = d

\* C5: while a domain is being published and after its publish has returned
\* an error (failed temporary write, failed rename), the target file of that
\* domain is what it was when the publish began: neither rewritten nor
\* deleted.
C5_IOFailureKeepsOld ==
  pubRes \in {"run", "err"} => fs[zonePath(pubDom)] = pubOld

\* The rename failed after the temporary file was written with a text newer
\* than the published one.
C5_Witness ==
  /\ pubRes = "err"
  /\ pubOld # NoFile
  /\ fs[tempPath(pubDom)] # NoFile
  /\ fs[tempPath(pubDom)].full
  /\ fs[tempPath(pubDom)].text.dom = pubDom
  /\ fs[tempPath(pubDom)].text # pubOld.text

\* C6: wherever the loop of regenerateAllZones stands, it has fetched the
\* records of every domain of the listing before the current one, whether
\* the earlier ones failed or not; so when the loop is over, every domain of
\* the listing has been fetched and, unless its own fetch failed, published.
C6_FailureIsolation ==
  pc = "loop" =>
    /\ idx <= Len(domains) + 1
    /\ tried = {domains[i] : i \in 1..(idx - 1)}

\* The loop is over: the first domain of the listing was never published (it
\* failed), the second one was published.
C6_Witness ==
  /\ pc = "loop"
  /\ Len(domains) = 2
  /\ idx = 3
  /\ domains[1] = "a"
  /\ fs[zonePath("a")] = NoFile
  /\ pubDom = domains[2]
  /\ pubRes = "ok"

\* C7: when the loop over the domains of a resync is over, the reload is
\* invoked next, for every resync including the initial one.
C7_ReloadAfterResync ==
  [][(pc = "loop" /\ pc' \notin {"loop", "gen", "killed"}) => pc' = "reload"]_vars

\* C8: when the select of a mode is reached and before any event is taken
\* from it, regenerateAllZones has been called exactly once and has returned;
\* no event is taken from a select before that.
C8_InitialResync ==
  /\ pc \in SelectPcs => (inflight = 0 /\ nInit = 1)
  /\ waited => nInit = 1

\* Poll mode waits in its select for the first time; no row is newer than
\* lastCheck.
C8_Witness ==
  /\ pc = "poll_select"
  /\ ~waited
  /\ ~recChanged
  /\ ~domChanged
  /\ nInit = 1

\* C9: the subscription is set up only with the store connected, and Poll
\* mode is entered only after the setup failed; a failed setup is no error
\* of Run (the process does not end with it), it leaves r.listener unset and
\* leads to pollForChanges, which makes its initial resync before it waits.
C9_InitialModeSelection ==
  /\ setupRes # "none" => db # "nil"
  /\ ticker # "none" => setupRes = "fail"
  /\ setupRes = "ok" => listener # "nil"
  /\ setupRes = "fail" =>
       /\ ~runErr
       /\ exit # 1
       /\ listener = "nil"
       /\ pc \in {"poll_init", "poll_select", "poll_count", "poll_total",
                  "poll_advance", "reload", "reload_ret", "cleanup", "exited",
                  "killed"} \cup ResyncPcs
       /\ pc \in {"cleanup", "exited"} => ticker = "stopped"
       /\ pc = "poll_select" => nInit = 1

\* The setup failed and Poll mode waits in its select after its initial
\* resync.
C9_Witness ==
  /\ setupRes = "fail"
  /\ pc = "poll_select"
  /\ InPoll
  /\ nInit = 1

\* C10: the process is never in Push and in Poll mode at once, and once the
\* ticker of Poll mode exists the process is never in Push mode again.
C10_OneWayDegradation ==
  [][/\ ~(InPush' /\ InPoll')
     /\ ticker # "none" => (ticker' # "none" /\ ~InPush')]_vars

\* Poll mode has taken an event from its select.
C10_Witness ==
  /\ InPoll
  /\ waited
  /\ pc = "poll_advance"

\* C11: the connect loop makes at most 10 attempts and none after a success;
\* Run gives up without a connection exactly when 10 attempts have failed;
\* the subscription, the ticker and every resync exist only with the store
\* connected.
C11_RetryBudget ==
  /\ attempts <= MaxAttempts
  /\ pc = "connect" => (attempts < MaxAttempts /\ db = "nil")
  /\ (db = "nil" /\ pc \in {"cleanup", "exited"}) <=> attempts = MaxAttempts
  /\ attempts = MaxAttempts => runErr
  /\ (db = "nil" /\ pc = "exited") => exit = 1
  /\ db = "nil" => /\ listener = "nil"
                  /\ ticker = "none"
                  /\ setupRes = "none"
                  /\ inflight = 0
                  /\ pc \in {"connect", "cleanup", "exited", "killed"}

\* The tenth attempt has failed and the process has ended with status 1.
C11_Witness ==
  /\ pc = "exited"
  /\ attempts = MaxAttempts
  /\ db = "nil"
  /\ exit = 1

\* The positions of the goroutine of Run inside listenForNotifications or
\* pollForChanges.
LoopPcs ==
  {"listen_init", "listen_select", "listen_ping", "poll_init", "poll_select",
   "poll_count", "poll_total", "poll_advance", "reload", "reload_ret"}
    \cup ResyncPcs

\* C12: when the shutdown signal has been received and the goroutine of Run
\* leaves listenForNotifications or pollForChanges, Run returns no error (so
\* that the process ends with status 0).
C12_OrderlyShutdown ==
  [][(ctxDone /\ pc \in LoopPcs /\ pc' = "cleanup") => ~runErr']_vars

\* C13: with the store connected at startup, Run never returns an error and
\* the process never ends with status 1.
C13_OnlyStartupFatal == db # "nil" => (~runErr /\ exit # 1)

\* C14: a tick whose domain count failed starts no resync, and a resync
\* whose listing of the domains failed publishes nothing, invokes no
\* reload and leaves the goroutine in its loop.
C14_StoreFailureSkipsCycle ==
  [][/\ (pc = "poll_total" /\ domErr) => pc' # "regen"
     /\ (pc = "regen" /\ pc' \notin {"regen", "loop", "killed"}) =>
          (fs' = fs /\ pc' \in SelectPcs \cup {"poll_advance"})]_vars

\* C15: the reload command changes no zone file; when it has failed,
\* triggerCoreReload returns no error, and its return changes no zone file,
\* leads back into the loop of the mode and is no error of Run.
C15_ReloadFailureNonFatal ==
  [][/\ pc \in {"reload", "reload_ret"} => fs' = fs
     /\ (pc = "reload_ret" /\ reloadErr) =>
          /\ ~cycleErr
          /\ pc' \in {"reload_ret", "listen_select", "poll_advance", "killed"}
          /\ ~runErr'
          /\ exit' = -1]_vars

\* The reload command was run after a resync that published the zone of "a",
\* and it failed.
C15_Witness ==
  /\ pc = "reload_ret"
  /\ reloadErr
  /\ reloads = 1
  /\ ~ctxDone
  /\ fs[zonePath("a")] = FullFile(zoneContent("a", ver))

\* C16: in Poll mode lastCheck is never advanced over a change of the
\* records that no resync has read the store after (with no store query
\* failed since the change, and no shutdown under way).
C16_PollLossless ==
  [][(pc = "poll_advance" /\ pc' = "poll_select" /\ ~ctxDone) => ~unread]_vars

\* C17: in Push mode, when the nil of a listener reconnect is received, no
\* notification waits behind it and some change of the records has not been
\* read by any resync, a resync is started or Poll mode is entered.
C17_PushSurvivesLoss ==
  [][(/\ pc = "listen_select"
      /\ ~ctxDone
      /\ unread
      /\ notify # <<>>
      /\ Head(notify) = "nil"
      /\ notify' = <<>>
      /\ pc' # "killed") => pc' \in {"regen", "poll_init"}]_vars

\* C18: as long as the process is subscribed, a keepalive probe is sent
\* again and again (runs in which the listener reconnects again and again are
\* left aside).
C18_KeepaliveEveryInterval ==
  []<>(\/ listener # "open"
       \/ pc = "listen_ping"
       \/ (notify # <<>> /\ Head(notify) = "nil"))

\* C19: two runs of generateZoneFile at the same hour on the same rows,
\* fetched in whatever orders, build the same text.
C19_Determinism ==
  [][(zoneText # <<>> /\ now' = now) => zoneText' = zoneText]_vars

\* C20: two runs of generateZoneFile on the same rows, fetched in the same
\* order, build the same text whatever time passed between them.
C20_Idempotence ==
  [][(zoneText # <<>> /\ records' = records) => zoneText' = zoneText]_vars

\* C21 (disjoint files): while the zone file of a domain is being published,
\* no step creates, modifies or removes the target file of another domain:
\* every other domain's target file is after the step what it was before it.
C21_DisjointFiles ==
  [][(pc \in {"gen", "write", "rename"} /\ pc' # "killed") =>
       \A d \in DomainNames \ {domains[idx]} :
          fs'[zonePath(d)] = fs[zonePath(d)]]_vars

\* C22 (consistent snapshot): the files one resync publishes come from one
\* state of the store: when the resync has published a domain and reads the
\* records of the next one, it reads them in the state of the store the
\* published file was rendered from.
C22_ConsistentSnapshot ==
  [][(pc = "loop" /\ pc' = "gen" /\ pubRes = "ok") =>
       snap' = fs[zonePath(pubDom)].text.ver]_vars

\* C23 (push payload is advisory only): whatever payload a notification
\* carries, the resync it starts is the same: the change handed on is the
\* same for every payload, the resync lists every domain of the store, reads
\* each domain's records in the current state of the store, and the text it
\* writes is the one of that domain and that state.
C23_PayloadAdvisory ==
  [][/\ (pc = "listen_select" /\ pc' = "regen") =>
          \A p \in Payloads : caller' = NotificationChange(p)
     /\ (pc = "regen" /\ pc' = "loop") =>
          {domains'[i] : i \in DOMAIN domains'} = doms
     /\ (pc = "loop" /\ pc' = "gen") => snap' = ver
     /\ (pc = "write" /\ pc' = "rename") =>
          fs'[tempPath(domains[idx])] =
            FullFile(zoneContent(domains[idx], snap))]_vars

\* A resync started by a notification has published the files of both
\* domains from the current state of the store.
C23_Witness ==
  /\ caller = "listen"
  /\ pc = "loop"
  /\ idx > Len(domains)
  /\ pubRes = "ok"
  /\ tried = DomainNames
  /\ fs[zonePath("a.tmp")] = FullFile(zoneContent("a.tmp", ver))

\* C24 (cancellation): once the shutdown signal is received, no query of the
\* store made by a resync or by the poll runs to completion, no reload
\* command is run, a resync that has not yet listed the domains publishes
\* nothing, and the process leaves its blocking wait and ends: nothing is
\* retried for ever.
C24_Cancellation ==
  /\ [][ctxDone =>
          /\ (pc = "regen" => (pc' # "loop" /\ fs' = fs))
          /\ (pc = "loop" => (pc' # "gen" /\ fs' = fs))
          /\ (pc = "poll_select" => pc' # "poll_count")
          /\ ((pc = "poll_count" /\ pc' = "poll_total") => domErr')
          /\ (pc = "reload" => reloads' = reloads)]_vars
  /\ (ctxDone ~> pc \in {"exited", "killed"})

\* The signal came during the startup: the initial resync started after it,
\* failed at its first query and published nothing, and the wait is entered
\* with the context cancelled.
C24_Witness ==
  /\ ctxDone
  /\ pc = "listen_select"
  /\ nInit = 1
  /\ ~waited
  /\ \A d \in DomainNames : fs[zonePath(d)] = NoFile

\* ------------------------------------------------- claims on the zone text

\* A record line of a text has five fields: name, ttl, class, type, rdata.
IsLine(l) == Len(l) = 5

LineIdx(z) == {i \in DOMAIN z : IsLine(z[i])}

\* The line is the default SOA: its rdata has the seven fields of
\* ns1.<domain>. admin.<domain>. <serial> 7200 3600 1209600 3600.
Synthesized(l) == l[4] = "SOA" /\ l[1] = <<"@">> /\ Len(l[5]) = 7

\* A row is eligible when it is enabled and authoritative.
Eligible(r) == ~r.disabled /\ r.auth

\* The content a record line carries: the rdata, without the priority for MX.
ContentOf(l) == IF l[4] = "MX" THEN Tail(l[5]) ELSE l[5]

Wrapped(c) == <<Quote>> \o c \o <<Quote>>

QuoteWrapped(c) == Len(c) >= 2 /\ Head(c) = Quote /\ c[Len(c)] = Quote

\* The line comes from the row: its ttl and type are the row's and it
\* carries the row's content, as it is or wrapped in quotes.
Carries(l, r) ==
  /\ ~Synthesized(l)
  /\ l[2] = r.ttl
  /\ l[4] = ToUpper(r.type)
  /\ (ContentOf(l) = r.content \/ ContentOf(l) = Wrapped(r.content))

\* C25: every enabled, authoritative row whose type is one of SOA, NS, A,
\* AAAA, CNAME, MX, TXT has exactly one line in the zone text, and every
\* record line is the line of such a row or the synthesized SOA.
C25_OneLinePerRecord ==
  LET RenderedTypes == {"SOA", "NS", "A", "AAAA", "CNAME", "MX", "TXT"}
  IN
  zoneText # <<>> =>
    /\ \A r \in recSet :
         (Eligible(r) /\ ToUpper(r.type) \in RenderedTypes) =>
           Cardinality({i \in LineIdx(zoneText) : Carries(zoneText[i], r)}) = 1
    /\ \A i \in LineIdx(zoneText) :
         \/ Synthesized(zoneText[i])
         \/ \E r \in recSet : /\ Eligible(r)
                              /\ ToUpper(r.type) \in RenderedTypes
                              /\ Carries(zoneText[i], r)

\* C26 (section order): the text starts with the header ($ORIGIN, $TTL and a
\* blank line); the record lines come in the order SOA, NS, A, AAAA, CNAME,
\* MX, TXT of their types, so the first record line is an SOA line; the lines
\* of a type form one section closed by a blank line, and a type without an
\* eligible row has no section (no blank line follows nothing).
C26_SectionOrder ==
  LET order == <<"SOA", "NS", "A", "AAAA", "CNAME", "MX", "TXT">>
      TypeRank(t) == CHOOSE k \in DOMAIN order : order[k] = t
  IN
  zoneText # <<>> =>
    /\ Len(zoneText) >= 5
    /\ zoneText[1] = <<"$ORIGIN", ZoneDomain \o <<Dot>>>>
    /\ zoneText[2] = <<"$TTL", 300>>
    /\ zoneText[3] = Blank
    /\ IsLine(zoneText[4]) /\ zoneText[4][4] = "SOA"
    /\ \A i, j \in LineIdx(zoneText) :
         i < j => TypeRank(zoneText[i][4]) <= TypeRank(zoneText[j][4])
    /\ \A i \in 4..Len(zoneText) :
         IF IsLine(zoneText[i])
         THEN /\ i < Len(zoneText)
              /\ IsLine(zoneText[i + 1]) => zoneText[i + 1][4] = zoneText[i][4]
         ELSE /\ zoneText[i] = Blank
              /\ IsLine(zoneText[i - 1])
    /\ \A i \in 4..(Len(zoneText) - 2) :
         (IsLine(zoneText[i]) /\ IsLine(zoneText[i + 2])
            /\ zoneText[i + 1] = Blank) =>
           zoneText[i][4] # zoneText[i + 2][4]

\* The domain has one A row and neither SOA nor NS: the text is the header,
\* the synthesized SOA line, no NS section, and the A line.
C26_Witness ==
  /\ Len(records) = 1
  /\ records[1].id = 2
  /\ Len(zoneText) = 7
  /\ Synthesized(zoneText[4])
  /\ zoneText[5] = Blank
  /\ zoneText[6] = <<<<"www">>, 300, "IN", "A", <<"10.0.0.1">>>>
  /\ zoneText[7] = Blank

\* C27: a disabled or non-authoritative row has no line in the zone text, and
\* when every SOA row of the domain is disabled or non-authoritative the SOA
\* line is the synthesized one: such a row does not count as a stored SOA.
C27_IneligibleExcluded ==
  zoneText # <<>> =>
    /\ \A r \in recSet :
         ~Eligible(r) =>
           \A i \in LineIdx(zoneText) : ~Carries(zoneText[i], r)
    /\ (\A r \in recSet : ToUpper(r.type) = "SOA" => ~Eligible(r)) =>
         (IsLine(zoneText[4]) /\ Synthesized(zoneText[4]))

\* The domain has a disabled A row and a non-authoritative SOA row, and its
\* text is built: the header and the synthesized SOA.
C27_Witness ==
  /\ zoneText # <<>>
  /\ {r.id : r \in recSet} = {10, 11}
  /\ Len(zoneText) = 5
  /\ Synthesized(zoneText[4])

\* The name the claim gives a row: "@" for the domain, the part before
\* "." + domain for a name ending with it, the name itself otherwise.
Compact(name, d) ==
  LET cut == {k \in 0..Len(name) : name = SubSeq(name, 1, k) \o <<Dot>> \o d}
  IN  IF name = d THEN <<"@">>
      ELSE IF cut # {} THEN SubSeq(name, 1, CHOOSE k \in cut : TRUE)
      ELSE name

\* C28 (name compaction): the name of every record line is "@" when the
\* row's name is the domain name, the row's name without ".<domain>" when it
\* ends with it, and the row's name as it is otherwise (a name with a
\* trailing dot, an unrelated name).
C28_NameCompaction ==
  zoneText # <<>> =>
    \A i \in LineIdx(zoneText) :
      \/ Synthesized(zoneText[i])
      \/ \E r \in recSet : /\ Carries(zoneText[i], r)
                           /\ zoneText[i][1] = Compact(r.name, ZoneDomain)

\* The domain has a row named as the domain and one with a foreign name
\* ending with a dot; their lines have "@" and the foreign name.
C28_Witness ==
  /\ {r.id : r \in recSet} = {6, 12}
  /\ Len(zoneText) = 9
  /\ zoneText[6][1] = <<"@">>
  /\ zoneText[8][1] = <<"ext", Dot, "b", Dot>>

\* C29 (SOA policy): every text has an SOA line.  Without an eligible stored
\* SOA row there is exactly one, the synthesized one: name "@", a serial of
\* ten digits made of the year, month, day and hour of the clock, and the
\* parameters 7200 3600 1209600 3600.  With an eligible stored SOA row the
\* SOA lines carry the stored contents as they are and none is synthesized.
C29_SOAPolicy ==
  zoneText # <<>> =>
    LET stored == {r \in recSet : Eligible(r) /\ ToUpper(r.type) = "SOA"}
        soa == {i \in LineIdx(zoneText) : zoneText[i][4] = "SOA"}
    IN  /\ soa # {}
        /\ stored = {} =>
             /\ soa = {4}
             /\ Synthesized(zoneText[4])
             /\ Len(zoneText[4][5][3]) = 10
             /\ \A k \in 1..10 : zoneText[4][5][3][k] \in 0..9
             /\ SubSeq(zoneText[4][5][3], 1, 6) = <<2, 0, 2, 6, 0, 1>>
             /\ zoneText[4][5][3][7] * 10 + zoneText[4][5][3][8]
                  = 1 + (now \div 24)
             /\ zoneText[4][5][3][9] * 10 + zoneText[4][5][3][10] = now % 24
             /\ SubSeq(zoneText[4][5], 4, 7) = <<7200, 3600, 1209600, 3600>>
        /\ stored # {} =>
             /\ Cardinality(soa) = Cardinality(stored)
             /\ \A i \in soa :
                  /\ ~Synthesized(zoneText[i])
                  /\ \E r \in stored : zoneText[i][5] = r.content

\* The domain has a disabled and a non-authoritative SOA row; the text built
\* in hour 1 has the synthesized SOA.
C29_Witness ==
  /\ {r.id : r \in recSet} = {11, 14}
  /\ now = 1
  /\ zoneText # <<>>
  /\ Synthesized(zoneText[4])
  /\ zoneText[4][5][3] = <<2, 0, 2, 6, 0, 1, 0, 1, 0, 1>>

\* C30 (TXT quoting): the rdata of every TXT line begins and ends with a
\* double quote; it is the row's content when that is quote-wrapped already,
\* and the content wrapped once otherwise.
C30_TxtQuoting ==
  zoneText # <<>> =>
    \A i \in LineIdx(zoneText) :
      zoneText[i][4] = "TXT" =>
        /\ QuoteWrapped(zoneText[i][5])
        /\ \E r \in recSet :
             /\ Eligible(r)
             /\ ToUpper(r.type) = "TXT"
             /\ zoneText[i][5] = IF QuoteWrapped(r.content)
                                 THEN r.content
                                 ELSE Wrapped(r.content)

\* C31 (MX priority): every MX line is the line of an MX row and its rdata
\* starts with the row's stored priority when the row has one and with 10
\* when the row's priority is unset.
C31_MXPriority ==
  zoneText # <<>> =>
    \A i \in LineIdx(zoneText) :
      zoneText[i][4] = "MX" =>
        \E r \in recSet :
          /\ Carries(zoneText[i], r)
          /\ Head(zoneText[i][5]) = IF r.prio = Null THEN 10 ELSE r.prio

\* The domain has an MX row without a priority and one with the priority 20,
\* and both lines are in the text, in some order.
C31_Witness ==
  /\ {r.id : r \in recSet} = {4, 13}
  /\ Len(zoneText) = 8
  /\ {Head(zoneText[6][5]), Head(zoneText[7][5])} = {10, 20}

\* C32 (unknown types are skipped): a row whose type is not one of SOA, NS,
\* A, AAAA, CNAME, MX, TXT has no line in the text, the text is built all the
\* same, and it is the text the other rows of the domain give without it.
C32_UnknownTypesSkipped ==
  LET RenderedTypes == {"SOA", "NS", "A", "AAAA", "CNAME", "MX", "TXT"}
      known(r) == ToUpper(r.type) \in RenderedTypes
  IN
  records # <<>> =>
    /\ zoneText # <<>>
    /\ \A r \in recSet :
         ~known(r) => \A i \in LineIdx(zoneText) : ~Carries(zoneText[i], r)
    /\ zoneText = ZoneText(ZoneDomain, SelectSeq(records, known), now)

\* The domain has a PTR row and an A row: the text has the synthesized SOA
\* and the A line only.
C32_Witness ==
  /\ {r.id : r \in recSet} = {2, 15}
  /\ Len(zoneText) = 7
  /\ zoneText[6] = <<<<"www">>, 300, "IN", "A", <<"10.0.0.1">>>>

\* C33 (malformed rows are skipped one by one): a row of a rendered type
\* with an empty content has no line in the text: no record line has an empty
\* content.
C33_MalformedSkipped ==
  zoneText # <<>> =>
    \A i \in LineIdx(zoneText) : ContentOf(zoneText[i]) # <<>>

C35_PollDetectsDeletion ==
  (unread /\ ticker = "running") ~> ~unread

\* C36 (poll watermark): lastCheck never decreases once Poll mode has set
\* it; it is set to one minute before the clock when Poll mode begins, and
\* to the clock at the end of every tick whose count of the records
\* succeeded, whether a resync was called or not and whatever it returned; a
\* tick whose count of the records failed, and every other step, leave it as
\* it was.
C36_PollWatermark ==
  [][/\ (pc = "poll_init" /\ pc' = "regen") => lastCheck' = clock - 1
     /\ (ticker = "running" /\ ticker' = "running") => lastCheck' >= lastCheck
     /\ (pc = "poll_advance" /\ pc' = "poll_select") => lastCheck' = clock
     /\ (pc = "poll_select" /\ tick /\ ~tick' /\ pc' = "poll_select") =>
          lastCheck' = lastCheck
     /\ (pc \notin {"poll_init", "poll_advance"} /\ pc' # "killed") =>
          lastCheck' = lastCheck
     /\ (pc' = "poll_select" /\ pc # "poll_select") =>
          \/ pc = "poll_advance"
          \/ caller = "poll_init" /\ lastCheck' = lastCheck]_vars

\* Poll mode began at minute 1 and a tick has ended at minute 2: lastCheck,
\* 0 at first, is 2.
C36_Witness ==
  /\ pc = "poll_select"
  /\ ticker = "running"
  /\ waited
  /\ lastCheck = 2
  /\ clock = 2

\* C37 (the poll interval is positive): Poll mode begins with an interval
\* above zero, and the start of its ticker does not panic.
C37_PollIntervalPositive ==
  /\ pc = "poll_init" => pollInterval > 0
  /\ pc # "panic"

\* C38 (an MX content that is a host name with a final dot is accepted): a
\* createRecord for MX whose content has no priority before the host name
\* and ends with a dot, as addMXRecord makes it, creates the record with the
\* priority given.
C38_MXHostOnlyAccepted ==
  (/\ adminRes.status # "none"
   /\ adminRes.type = "MX"
   /\ Spaces(adminRes.content) = {}
   /\ HasSuffix(adminRes.content, <<Dot>>)) =>
     /\ adminRes.status = "created"
     /\ adminRes.prio \in {10, 20}

====
